---- MODULE Spec2Model ----
(***************************************************************************)
(* Model of histogram_utils.py: the colour-histogram parameter validator,  *)
(* the raw and L1-normalised colour histograms, the size-weighted          *)
(* histogram intersection and the gradient-orientation descriptor.         *)
(*                                                                         *)
(* Every function of the library is stateless, so each specification draws *)
(* the arguments of one call in its initial states and its actions apply   *)
(* the functions to them.  Real numbers are exact fractions [num, den];    *)
(* den = 0 stands for the IEEE results of a division by zero (0/0 = NaN,   *)
(* x/0 = inf).  Array indices are 0-based as in the source.                *)
(***************************************************************************)
EXTENDS Integers, Sequences, FiniteSets, TLC

VARIABLES
    image,        \* the caller's image array: [rows, cols, chans, pix]
    mask,         \* the mask argument (given = FALSE stands for None)
    channels,     \* histogram request: channel indices
    bins,         \* histogram request: bin count per requested channel
    ranges,       \* histogram request: flat list of low, high per channel
    called,       \* name of the function that was called ("none" before)
    result,       \* what the call returned or raised: [kind, val]
    hist_a,       \* normalized_histogram_intersection: first histogram
    hist_b,       \* second histogram
    a_size,       \* size of the region hist_a is over
    b_size,       \* size of the region hist_b is over
    no_bins,      \* get_sift_features: number of orientation bins
    th,           \* get_sift_features: threshold, the fraction th / ThDen
    callerImage,  \* the pixel values the caller passed in (never written)
    sift          \* get_sift_features: its locals when the call ended

vars == <<image, mask, channels, bins, ranges, called, result,
          hist_a, hist_b, a_size, b_size,
          no_bins, th, callerImage, sift>>

---------------------------------------------------------------------------
(* Bounds of the model.                                                    *)

MaxSide == 2          \* rows and columns of images and masks: 1..MaxSide
MaxLen == 2           \* bins of an intersected histogram: 0..MaxLen
MaxCount == 2         \* numerator of one intersected bin: 0..MaxCount
MaxSize == 2          \* region sizes: 0..MaxSize
MaxUnit == 2          \* denominator of the intersected bins: 1..MaxUnit
MaxBins == 2          \* small values of no_bins: 1..MaxBins

ChannelCounts == 1..3                 \* channel counts of images
ChannelIndices == 0..3                \* requested channel indices
RequestLens == 1..2                   \* number of requested channels
PixelValues == {0, 3}                 \* pixel values of images with content
RangePairs == {<<0, 2>>, <<0, 4>>, <<2, 4>>}   \* [low, high) per channel
BinCounts == 1..2                     \* bin count of one requested channel

---------------------------------------------------------------------------
(* Generic helpers: sequences, sums, fractions.                            *)

Range(s) == {s[i] : i \in DOMAIN s}

SeqsOfLen(S, lens) == UNION {[1..n -> S] : n \in lens}

RECURSIVE SumSeq(_)
SumSeq(s) == IF s = <<>> THEN 0 ELSE Head(s) + SumSeq(Tail(s))

RECURSIVE ProdSeq(_)
ProdSeq(s) == IF s = <<>> THEN 1 ELSE Head(s) * ProdSeq(Tail(s))

Abs(x) == IF x < 0 THEN -x ELSE x

Frac(n, d) == [num |-> n, den |-> d]

IsFinite(q) == q.den # 0

FracEq(p, q) == IsFinite(p) /\ IsFinite(q) /\ p.num * q.den = q.num * p.den

\* p <= q for finite fractions with positive denominators
FracLeq(p, q) == IsFinite(p) /\ IsFinite(q) /\ p.num * q.den <= q.num * p.den

FracAdd(p, q) ==
    IF IsFinite(p) /\ IsFinite(q)
    THEN Frac(p.num * q.den + q.num * p.den, p.den * q.den)
    ELSE Frac(0, 0)

FracAbs(q) == Frac(Abs(q.num), Abs(q.den))

RECURSIVE SumAbsFrac(_)
SumAbsFrac(s) ==
    IF s = <<>> THEN Frac(0, 1)
    ELSE FracAdd(FracAbs(Head(s)), SumAbsFrac(Tail(s)))

---------------------------------------------------------------------------
(* Arrays.                                                                 *)

NoMask == [given |-> FALSE, rows |-> 0, cols |-> 0, pix |-> <<>>]

Positions(r, c) == (0..(r - 1)) \X (0..(c - 1))

Voxels(r, c, n) == (0..(r - 1)) \X (0..(c - 1)) \X (0..(n - 1))

Images(r, c, n, vals) ==
    {[rows |-> r, cols |-> c, chans |-> n, pix |-> p] : p \in [Voxels(r, c, n) -> vals]}

Masks(r, c, vals) ==
    {[given |-> TRUE, rows |-> r, cols |-> c, pix |-> p] : p \in [Positions(r, c) -> vals]}

Ok(v) == [kind |-> "ok", val |-> v]

Raised(e) == [kind |-> e, val |-> <<>>]

NoResult == [kind |-> "none", val |-> <<>>]

---------------------------------------------------------------------------
(* check_color_hist_params, lines 33-50.                                   *)

Shape(a) == <<a.rows, a.cols, a.chans>>

\* a.shape[i] for an image, a.shape[:1] for an image or a mask
ShapeAt(a, i) == Shape(a)[i + 1]

ShapeUpTo1(a) == <<a.rows>>

MaxOf(s) == CHOOSE m \in Range(s) : \A x \in Range(s) : x <= m

\* "mask != None": a supplied array compares unequal to None
MaskSupplied(m) == m.given

check_color_hist_params(im, chs, bs, rs, m) ==
    IF MaxOf(chs) > ShapeAt(im, 0) - 1 THEN Raised("ValueError")
    ELSE IF Len(chs) # Len(bs) THEN Raised("ValueError")
    ELSE IF 2 * Len(chs) # Len(rs) THEN Raised("ValueError")
    ELSE IF MaskSupplied(m) /\ ShapeUpTo1(m) # ShapeUpTo1(im) THEN Raised("ValueError")
    ELSE Ok(<<>>)

---------------------------------------------------------------------------
(* cv2.calcHist as called at lines 102 and 119: a joint histogram of the   *)
(* requested channels with uniform bins over [low, high), counting the     *)
(* pixels the mask leaves in; row-major order when flattened.              *)

RangeLow(rs, d) == rs[2 * d - 1]

RangeHigh(rs, d) == rs[2 * d]

CalcHistArgsOk(im, chs, m, bs, rs) ==
    /\ \A d \in DOMAIN chs : chs[d] >= 0 /\ chs[d] < im.chans
    /\ \A d \in DOMAIN bs : bs[d] >= 1
    /\ \A d \in DOMAIN chs : RangeLow(rs, d) < RangeHigh(rs, d)
    /\ m.given => (m.rows = im.rows /\ m.cols = im.cols)

Sample(im, pos, ch) == im.pix[<<pos[1], pos[2], ch>>]

BinOf(v, lo, hi, nb) == ((v - lo) * nb) \div (hi - lo)

RECURSIVE FlatIndex(_, _)
FlatIndex(idx, bs) ==
    IF idx = <<>> THEN 0
    ELSE Head(idx) * ProdSeq(Tail(bs)) + FlatIndex(Tail(idx), Tail(bs))

PixelCounted(im, pos, chs, m, rs) ==
    /\ m.given => m.pix[pos] # 0
    /\ \A d \in DOMAIN chs :
          /\ Sample(im, pos, chs[d]) >= RangeLow(rs, d)
          /\ Sample(im, pos, chs[d]) < RangeHigh(rs, d)

PixelCell(im, pos, chs, bs, rs) ==
    FlatIndex([d \in DOMAIN chs |->
                  BinOf(Sample(im, pos, chs[d]), RangeLow(rs, d), RangeHigh(rs, d), bs[d])],
              bs)

calcHist(im, chs, m, bs, rs) ==
    IF ~CalcHistArgsOk(im, chs, m, bs, rs) THEN Raised("cv2.error")
    ELSE Ok([j \in 1..ProdSeq(bs) |->
                Cardinality({pos \in Positions(im.rows, im.cols) :
                                /\ PixelCounted(im, pos, chs, m, rs)
                                /\ PixelCell(im, pos, chs, bs, rs) = j - 1})])

---------------------------------------------------------------------------
(* get_histogram (117-119) and get_normalized_histogram (100-105).         *)

get_histogram(im, chs, bs, rs, m) ==
    LET checked == check_color_hist_params(im, chs, bs, rs, m)
    IN  IF checked.kind # "ok" THEN checked ELSE calcHist(im, chs, m, bs, rs)

\* np.linalg.norm(hist, ord=inf): the largest absolute value
NormInf(h) == IF h = <<>> THEN 0 ELSE MaxOf([i \in DOMAIN h |-> Abs(h[i])])

\* np.linalg.norm(hist, ord=1): the sum of the absolute values
NormL1(h) == SumSeq([i \in DOMAIN h |-> Abs(h[i])])

\* hist / norm, element by element
DivideBy(h, n) == [i \in DOMAIN h |-> Frac(h[i], n)]

get_normalized_histogram(im, chs, bs, rs, m) ==
    LET checked == check_color_hist_params(im, chs, bs, rs, m)
        hist == calcHist(im, chs, m, bs, rs)
    IN  IF checked.kind # "ok" THEN checked
        ELSE IF hist.kind # "ok" THEN hist
        ELSE Ok(DivideBy(hist.val, NormL1(hist.val)))

---------------------------------------------------------------------------
(* Calls of the colour-histogram functions.                                *)

IdleHist ==
    /\ channels = <<>>
    /\ bins = <<>>
    /\ ranges = <<>>

IdleIntersection ==
    /\ hist_a = <<>>
    /\ hist_b = <<>>
    /\ a_size = 0
    /\ b_size = 0

IdleSift ==
    /\ no_bins = 0
    /\ th = 0
    /\ sift = <<>>

\* requests of every shape against images and masks of every shape
RangesOfLen(n) == [i \in 1..n |-> IF i % 2 = 1 THEN 0 ELSE 4]

InitShapes ==
    /\ \E r \in 1..MaxSide, c \in 1..MaxSide, n \in ChannelCounts :
          image \in Images(r, c, n, {0})
    /\ \/ mask = NoMask
       \/ \E r \in 1..MaxSide, c \in 1..MaxSide : mask \in Masks(r, c, {1})
    /\ channels \in SeqsOfLen(ChannelIndices, RequestLens)
    /\ bins \in SeqsOfLen({2}, 0..3)
    /\ \E n \in 0..5 : ranges = RangesOfLen(n)

\* well-formed requests against images and masks with content
InitContent ==
    /\ \E shp \in {<<1, 2>>, <<2, 1>>}, n \in 1..2 :
          /\ image \in Images(shp[1], shp[2], n, PixelValues)
          /\ mask \in {NoMask} \cup Masks(shp[1], shp[2], {0, 1})
          /\ channels \in SeqsOfLen(0..(n - 1), RequestLens)
    /\ bins \in [DOMAIN channels -> BinCounts]
    /\ \E rp \in [DOMAIN channels -> RangePairs] :
          ranges = [i \in 1..(2 * Len(channels)) |-> rp[(i + 1) \div 2][2 - (i % 2)]]

InitHist ==
    /\ InitShapes \/ InitContent
    /\ callerImage = image
    /\ called = "none"
    /\ result = NoResult
    /\ IdleIntersection
    /\ IdleSift

Return(fn, res) ==
    /\ called = "none"
    /\ called' = fn
    /\ result' = res
    /\ UNCHANGED <<image, mask, channels, bins, ranges, hist_a, hist_b, a_size,
                   b_size, no_bins, th, callerImage, sift>>

CallCheckColorHistParams ==
    /\ channels # <<>>
    /\ Return("check_color_hist_params",
              check_color_hist_params(image, channels, bins, ranges, mask))

CallGetHistogram ==
    /\ channels # <<>>
    /\ Return("get_histogram", get_histogram(image, channels, bins, ranges, mask))

CallGetNormalizedHistogram ==
    /\ channels # <<>>
    /\ Return("get_normalized_histogram",
              get_normalized_histogram(image, channels, bins, ranges, mask))

NextHist ==
    \/ CallCheckColorHistParams
    \/ CallGetHistogram
    \/ CallGetNormalizedHistogram

SpecHist == InitHist /\ [][NextHist]_vars

---------------------------------------------------------------------------
(* Claims about the parameter validator and the colour histograms.         *)

RequestValid ==
    /\ Len(channels) = Len(bins)
    /\ Len(ranges) = 2 * Len(channels)
    /\ MaxOf(channels) < image.chans

HistFunctions ==
    {"check_color_hist_params", "get_histogram", "get_normalized_histogram"}

\* C1: with no mask, the validator (and so get_histogram and
\* get_normalized_histogram) accepts a request exactly when
\* len(channels) = len(bins), len(ranges) = 2 * len(channels) and
\* max(channels) < the image's channel count, and raises ValueError otherwise,
\* whatever the image's row and column counts are.
C1_AcceptsExactlyValidRequests ==
    (called \in HistFunctions /\ ~mask.given) =>
        /\ RequestValid <=> result.kind # "ValueError"
        /\ called = "check_color_hist_params" => (RequestValid <=> result.kind = "ok")

\* C6: a supplied mask whose rows and columns are not both those of the image
\* makes the call fail with ValueError before any histogram is computed.
C6_MaskOfOtherShapeRejected ==
    (called \in HistFunctions /\ mask.given
        /\ <<mask.rows, mask.cols>> # <<image.rows, image.cols>>) =>
        result.kind = "ValueError"

RawHistogram == get_histogram(image, channels, bins, ranges, mask)

One == Frac(1, 1)

NormalizedAsClaimed ==
    /\ FracEq(SumAbsFrac(result.val), One)
    /\ RawHistogram.kind = "ok"
    /\ Len(result.val) = Len(RawHistogram.val)
    /\ \A i \in DOMAIN result.val :
          FracEq(result.val[i], Frac(RawHistogram.val[i], SumSeq(RawHistogram.val)))

\* C2 as stated: every histogram get_normalized_histogram returns for an
\* accepted request has absolute bin values summing to 1 and is the raw
\* histogram of get_histogram divided by its total count.
C2_NormalizedSumsToOne ==
    (called = "get_normalized_histogram" /\ result.kind = "ok") => NormalizedAsClaimed

\* C2 amended: every histogram get_normalized_histogram returns for a request
\* whose raw histogram has a positive total count has absolute bin values
\* summing to 1 and is the raw histogram divided by its total count.
C2_NormalizedSumsToOneWhenCounted ==
    (called = "get_normalized_histogram" /\ result.kind = "ok"
        /\ RawHistogram.kind = "ok" /\ SumSeq(RawHistogram.val) > 0) =>
        NormalizedAsClaimed

C2_Witness ==
    /\ called = "get_normalized_histogram"
    /\ result.kind = "ok"
    /\ mask.given
    /\ Len(channels) = 2
    /\ Cardinality({i \in DOMAIN result.val : result.val[i].num > 0}) = 2

---------------------------------------------------------------------------
(* normalized_histogram_intersection, lines 74-88.  The bins of a          *)
(* histogram are fractions.                                                *)

FracMul(p, q) == Frac(p.num * q.num, p.den * q.den)

FracOfInt(n) == Frac(n, 1)

\* x > 0 for a fraction with a positive denominator
Positive(q) == q.num > 0

RECURSIVE SumFrac(_)
SumFrac(s) ==
    IF s = <<>> THEN Frac(0, 1) ELSE FracAdd(Head(s), SumFrac(Tail(s)))

\* (hist_a > 0).astype(int) | (hist_b > 0).astype(int)
EitherPositiveMask(ha, hb) ==
    [i \in DOMAIN ha |-> IF Positive(ha[i]) \/ Positive(hb[i]) THEN 1 ELSE 0]

\* line 80: (hist_a > 0).astype(int) & (hist_b > 0).astype(int)
BinaryMask(ha, hb) ==
    [i \in DOMAIN ha |-> IF Positive(ha[i]) /\ Positive(hb[i]) THEN 1 ELSE 0]

\* lines 82-83: np.multiply(hist, binary_mask)
Multiply(h, m) == [i \in DOMAIN h |-> FracMul(h[i], FracOfInt(m[i]))]

\* lines 85-86: size * np.ones(hist.shape)
Sizes(size, h) == [i \in DOMAIN h |-> FracOfInt(size)]

\* line 88: np.dot(sizes, hist_masked)
Dot(u, v) == SumFrac([i \in DOMAIN u |-> FracMul(u[i], v[i])])

\* float(total) / a_size + b_size
DivideThenAdd(total, sa, sb) ==
    IF sa = 0 THEN Raised("ZeroDivisionError")
    ELSE Ok(FracAdd(FracMul(total, Frac(1, sa)), FracOfInt(sb)))

\* float(total) / a_size
DivideByFirstSize(total, sa, sb) ==
    IF sa = 0 THEN Raised("ZeroDivisionError")
    ELSE Ok(FracMul(total, Frac(1, sa)))

\* line 88: float(total) / (a_size + b_size)
DivideBySizes(total, sa, sb) ==
    IF sa + sb = 0 THEN Raised("ZeroDivisionError")
    ELSE Ok(FracMul(total, Frac(1, sa + sb)))

normalized_histogram_intersection(ha, sa, hb, sb) ==
    IF Len(ha) # Len(hb) THEN Raised("ValueError")
    ELSE LET binary_mask == BinaryMask(ha, hb)
             hist_a_masked == Multiply(ha, binary_mask)
             hist_b_masked == Multiply(hb, binary_mask)
             a_sizes == Sizes(sa, ha)
             b_sizes == Sizes(sb, hb)
         IN  DivideBySizes(FracAdd(Dot(a_sizes, hist_a_masked),
                                   Dot(b_sizes, hist_b_masked)), sa, sb)

Histograms(u) == SeqsOfLen({Frac(n, u) : n \in 0..MaxCount}, 0..MaxLen)

InitIntersection ==
    /\ \E u \in 1..MaxUnit :
          /\ hist_a \in Histograms(u)
          /\ hist_b \in Histograms(u)
    /\ a_size \in 0..MaxSize
    /\ b_size \in 0..MaxSize
    /\ called = "none"
    /\ result = NoResult
    /\ image = NoMask
    /\ mask = NoMask
    /\ callerImage = NoMask
    /\ IdleHist
    /\ IdleSift

CallNormalizedHistogramIntersection ==
    /\ called = "none"
    /\ called' = "normalized_histogram_intersection"
    /\ result' = normalized_histogram_intersection(hist_a, a_size, hist_b, b_size)
    /\ UNCHANGED <<image, mask, channels, bins, ranges, hist_a, hist_b, a_size,
                   b_size, no_bins, th, callerImage, sift>>

NextIntersection == CallNormalizedHistogramIntersection

SpecIntersection == InitIntersection /\ [][NextIntersection]_vars

---------------------------------------------------------------------------
(* Claims about the weighted intersection.                                 *)

Intersected == called = "normalized_histogram_intersection"

AllPositive(h) == \A i \in DOMAIN h : Positive(h[i])

\* the sum of h over the bins in which both ha and hb are strictly positive
JointSupport(ha, hb) == {i \in DOMAIN ha : Positive(ha[i]) /\ Positive(hb[i])}

RECURSIVE SumOver(_, _)
SumOver(h, I) ==
    IF I = {} THEN Frac(0, 1)
    ELSE LET i == CHOOSE j \in I : TRUE
         IN  FracAdd(h[i], SumOver(h, I \ {i}))

SelfIntersection ==
    /\ Intersected
    /\ hist_a = hist_b
    /\ a_size = b_size
    /\ a_size > 0
    /\ AllPositive(hist_a)

\* C3 as stated: for a histogram h with strictly positive bins and a size
\* s > 0, normalized_histogram_intersection(h, s, h, s) = s * sum(h).
C3_SelfIntersectionIsSizeTimesSum ==
    SelfIntersection =>
        /\ result.kind = "ok"
        /\ FracEq(result.val, FracMul(FracOfInt(a_size), SumFrac(hist_a)))

\* C3 amended: for a histogram h with strictly positive bins and a size
\* s > 0, normalized_histogram_intersection(h, s, h, s) = sum(h).
C3_SelfIntersectionIsSum ==
    SelfIntersection =>
        /\ result.kind = "ok"
        /\ FracEq(result.val, SumFrac(hist_a))

C3_Witness ==
    /\ SelfIntersection
    /\ Len(hist_a) = 2
    /\ a_size = 2
    /\ result.kind = "ok"

\* C4: for equal-length histograms with non-negative bins and sizes with
\* sizeA + sizeB > 0 the result is (sizeA * SA + sizeB * SB) / (sizeA + sizeB),
\* SA and SB being the sums of A and B over the bins in which both are
\* strictly positive; a bin only one histogram has mass in adds nothing.
C4_WeightedJointSupportSum ==
    (Intersected /\ Len(hist_a) = Len(hist_b) /\ a_size + b_size > 0) =>
        /\ result.kind = "ok"
        /\ FracEq(result.val,
                  FracMul(FracAdd(FracMul(FracOfInt(a_size),
                                          SumOver(hist_a, JointSupport(hist_a, hist_b))),
                                  FracMul(FracOfInt(b_size),
                                          SumOver(hist_b, JointSupport(hist_a, hist_b)))),
                          Frac(1, a_size + b_size)))

C4_Witness ==
    /\ Intersected
    /\ result.kind = "ok"
    /\ Len(hist_a) = 2
    /\ a_size # b_size
    /\ a_size > 0
    /\ b_size > 0
    /\ Cardinality(JointSupport(hist_a, hist_b)) = 1
    /\ \E i \in DOMAIN hist_a : Positive(hist_a[i]) /\ ~Positive(hist_b[i])

L1Normalized(h) == FracEq(SumFrac(h), One)

\* C5: for equal-length L1-normalized histograms and positive region sizes
\* the result lies between 0 and 1 inclusive.
C5_ResultBetweenZeroAndOne ==
    (Intersected /\ Len(hist_a) = Len(hist_b) /\ a_size > 0 /\ b_size > 0
        /\ L1Normalized(hist_a) /\ L1Normalized(hist_b)) =>
        /\ result.kind = "ok"
        /\ FracLeq(Frac(0, 1), result.val)
        /\ FracLeq(result.val, One)

C5_Witness ==
    /\ Intersected
    /\ L1Normalized(hist_a)
    /\ L1Normalized(hist_b)
    /\ a_size > 0
    /\ b_size > 0
    /\ result.kind = "ok"
    /\ ~FracEq(result.val, One)
    /\ ~FracEq(result.val, Frac(0, 1))

---------------------------------------------------------------------------
(* get_sift_features, lines 155-203.  Angles are fractions of pi in units  *)
(* of pi / AngleUnits, magnitudes are integers, th is a fraction.          *)

AngleUnits == 2       \* pi is AngleUnits units of angle

MaskedChannels == 3   \* line 159: for i in range(3)

ByteModulus == 256    \* the image holds unsigned 8-bit samples

IndexError == "IndexError"

\* im = image: a second name for the caller's array
Alias(a) == [array |-> a, owner |-> "caller"]

\* line 157: np.copy(image), a new array with the same contents
NpCopy(a) == [array |-> a, owner |-> "callee"]

\* line 160, one iteration: im[:,:,i] = mask * image[:,:,i]
MaskChannel(a, src, m, i) ==
    [a EXCEPT !.pix = [v \in DOMAIN a.pix |->
        IF v[3] = i
        THEN (m.pix[<<v[1], v[2]>>] * src.pix[v]) % ByteModulus
        ELSE a.pix[v]]]

\* lines 158-160: the loop over the first MaskedChannels channels, from
\* channel i on; writing a channel the array does not have raises IndexError
RECURSIVE ApplyMask(_, _, _, _)
ApplyMask(a, src, m, i) ==
    IF i >= MaskedChannels THEN [raised |-> FALSE, array |-> a]
    ELSE IF i >= a.chans THEN [raised |-> TRUE, array |-> a]
    ELSE ApplyMask(MaskChannel(a, src, m, i), src, m, i + 1)

\* the caller's array after the writes to im
CallerArray(ref, original) ==
    IF ref.owner = "caller" THEN ref.array ELSE original

---------------------------------------------------------------------------
(* image_utils.get_derivative_orientation_and_mag (line 169): for every    *)
(* pixel of one channel an orientation in [-pi, pi] and a magnitude >= 0.  *)
(* A constant channel has no gradient; any other channel may yield any     *)
(* field over Polar: five (orientation, magnitude) pairs per pixel for     *)
(* images of one or two channels, two pairs for three-channel images.      *)

Polar(a) ==
    IF a.chans < MaskedChannels
    THEN {<<-AngleUnits, 2>>, <<-1, 1>>, <<0, 2>>, <<1, 1>>, <<AngleUnits, 2>>}
    ELSE {<<-1, 1>>, <<AngleUnits, 2>>}

ChannelConstant(a, ch) ==
    \A p, q \in Positions(a.rows, a.cols) : Sample(a, p, ch) = Sample(a, q, ch)

NoField == [ori |-> <<>>, mag |-> <<>>]

ZeroField(a) ==
    [ori |-> [p \in Positions(a.rows, a.cols) |-> 0],
     mag |-> [p \in Positions(a.rows, a.cols) |-> 0]]

get_derivative_orientation_and_mag(a, ch) ==
    IF ch >= a.chans THEN {NoField}
    ELSE IF ChannelConstant(a, ch) THEN {ZeroField(a)}
    ELSE {[ori |-> [p \in Positions(a.rows, a.cols) |-> f[p][1]],
           mag |-> [p \in Positions(a.rows, a.cols) |-> f[p][2]]] :
             f \in [Positions(a.rows, a.cols) -> Polar(a)]}

---------------------------------------------------------------------------
(* The descriptor proper, lines 162-203.                                   *)

MaxOfSet(S) == CHOOSE m \in S : \A x \in S : x <= m

\* line 170: th * np.max(gradients[channel].mag)
Threshold(t, field) == FracMul(t, FracOfInt(MaxOfSet(Range(field.mag))))

\* Values of no_bins for which ceil((pi - -pi) / step), the length numpy gives
\* np.arange(-pi, pi, step), is no_bins + 1 in IEEE double arithmetic:
\* (2 pi) / fl((2 pi) / 61) = 61.00000000000001.
ArangeOvershoot == {61, 122, 197, 244}

ArangeLength(n) == IF n \in ArangeOvershoot THEN n + 1 ELSE n

\* lines 173-177: -pi + k * step for every k of the arange, then pi
Orientations(n) ==
    [k \in 1..(ArangeLength(n) + 1) |->
        IF k = ArangeLength(n) + 1 THEN FracOfInt(AngleUnits)
        ELSE Frac(2 * AngleUnits * (k - 1) - AngleUnits * n, n)]

FracLess(p, q) == p.num * q.den < q.num * p.den

\* ori > low and ori <= high
InBinClosedAbove(ori, mag, lo, hi, thr) ==
    IF /\ FracLess(lo, FracOfInt(ori))
       /\ ~FracLess(hi, FracOfInt(ori))
       /\ FracLess(thr, FracOfInt(mag))
    THEN 1 ELSE 0

\* lines 189-191: (ori > low) & (ori < high) & (mag > threshold), as ints
InBin(ori, mag, lo, hi, thr) ==
    IF /\ FracLess(lo, FracOfInt(ori))
       /\ FracLess(FracOfInt(ori), hi)
       /\ FracLess(thr, FracOfInt(mag))
    THEN 1 ELSE 0

\* lines 180-191: per channel a rows x cols x no_bins array of indicators;
\* bin k of the orientations list is written to plane k of the array
BinPixels(a, n, grads, thrs, oris) ==
    [ch \in 0..(a.chans - 1) |->
        [c \in Positions(a.rows, a.cols) \X (0..(n - 1)) |->
            InBin(grads[ch].ori[c[1]], grads[ch].mag[c[1]],
                  oris[c[2] + 1], oris[c[2] + 2], thrs[ch])]]

\* the loop of line 185 visits len(orientations) - 1 bins; plane n is outside
\* the array
BinLoopRaises(n, oris) == Len(oris) - 1 > n

\* line 196: np.sum(histograms[channel], axis=(0,1))
SumOverSpace(a, n, plane) ==
    [k \in 1..n |->
        Cardinality({p \in Positions(a.rows, a.cols) : plane[<<p, k - 1>>] = 1})]

\* lines 194-196: np.append of every channel's sums, in channel order
RECURSIVE Concat(_, _, _, _)
Concat(a, n, planes, ch) ==
    IF ch >= a.chans THEN <<>>
    ELSE SumOverSpace(a, n, planes[ch]) \o Concat(a, n, planes, ch + 1)

\* line 198: np.linalg.norm(hist) == 0
NormIsZero(h) == \A i \in DOMAIN h : h[i] = 0

NoLocals ==
    [im |-> NoMask, gradients |-> <<>>, thresholds |-> <<>>, orientations |-> <<>>,
     histograms |-> <<>>, hist |-> <<>>, printed |-> FALSE]

\* lines 162-203, given the masked copy and the gradient fields g0, g1, g2
Describe(a, n, t, g0, g1, g2) ==
    LET gradients == [ch \in 0..(a.chans - 1) |->
                         IF ch = 0 THEN g0 ELSE IF ch = 1 THEN g1 ELSE g2]
        thresholds == [ch \in 0..(a.chans - 1) |-> Threshold(t, gradients[ch])]
        orientations == Orientations(n)
        histograms == BinPixels(a, n, gradients, thresholds, orientations)
        hist == Concat(a, n, histograms, 0)
        locals == [im |-> a, gradients |-> gradients, thresholds |-> thresholds,
                   orientations |-> orientations, histograms |-> <<>>,
                   hist |-> <<>>, printed |-> FALSE]
    IN  IF BinLoopRaises(n, orientations)
        THEN [locals |-> locals, result |-> Raised(IndexError)]
        ELSE [locals |-> [locals EXCEPT !.histograms = histograms, !.hist = hist,
                                        !.printed = NormIsZero(hist)],
              result |-> Ok(DivideBy(hist, NormL1(hist)))]

Thresholds == {Frac(1, 2)}

SiftShapes == {<<1, 1>>, <<1, 2>>}

BinCountsOfSift == (1..MaxBins) \cup {61}

InitSift ==
    /\ \E shp \in SiftShapes, n \in ChannelCounts :
          /\ image \in Images(shp[1], shp[2], n, {0, 1})
          /\ mask \in {NoMask} \cup Masks(shp[1], shp[2], {0, 1})
    /\ callerImage = image
    /\ no_bins \in BinCountsOfSift
    /\ th \in Thresholds
    /\ sift = NoLocals
    /\ called = "none"
    /\ result = NoResult
    /\ IdleHist
    /\ IdleIntersection

\* get_sift_features(image, sigma, no_bins, th, mask); sigma only reaches the
\* derivative operator
CallGetSiftFeatures ==
    /\ called = "none"
    /\ no_bins >= 1
    /\ called' = "get_sift_features"
    /\ LET im == NpCopy(image)
           masked == IF MaskSupplied(mask) THEN ApplyMask(im.array, image, mask, 0)
                     ELSE [raised |-> FALSE, array |-> im.array]
           written == [im EXCEPT !.array = masked.array]
       IN  /\ image' = CallerArray(written, image)
           /\ IF masked.raised
              THEN /\ sift' = [NoLocals EXCEPT !.im = masked.array]
                   /\ result' = Raised(IndexError)
              ELSE \E g0 \in get_derivative_orientation_and_mag(masked.array, 0),
                      g1 \in get_derivative_orientation_and_mag(masked.array, 1),
                      g2 \in get_derivative_orientation_and_mag(masked.array, 2) :
                      LET d == Describe(masked.array, no_bins, th, g0, g1, g2)
                      IN  /\ sift' = d.locals
                          /\ result' = d.result
    /\ UNCHANGED <<mask, channels, bins, ranges, hist_a, hist_b, a_size, b_size,
                   no_bins, th, callerImage>>

NextSift == CallGetSiftFeatures

SpecSift == InitSift /\ [][NextSift]_vars

---------------------------------------------------------------------------
(* Claims about the gradient-orientation descriptor.                       *)

Described == called = "get_sift_features" /\ sift.gradients # <<>>

SiftChannels == 0..(image.chans - 1)

SiftPositions == Positions(image.rows, image.cols)

\* bound k of the no_bins equal-width bins of [-pi, pi]: -pi + k * 2 pi / no_bins
BinBound(k) == Frac(2 * AngleUnits * k - AngleUnits * no_bins, no_bins)

OriOf(ch, p) == FracOfInt(sift.gradients[ch].ori[p])

MagOf(ch, p) == FracOfInt(sift.gradients[ch].mag[p])

AboveThreshold(ch, p) ==
    FracLess(FracMul(th, FracOfInt(MaxOfSet(Range(sift.gradients[ch].mag)))), MagOf(ch, p))

StrictlyInside(ch, p, k) ==
    FracLess(BinBound(k), OriOf(ch, p)) /\ FracLess(OriOf(ch, p), BinBound(k + 1))

\* the pixels of channel ch the claim counts in bin k
CountIn(ch, k) ==
    Cardinality({p \in SiftPositions : AboveThreshold(ch, p) /\ StrictlyInside(ch, p, k)})

TotalCount ==
    SumSeq([i \in 1..(image.chans * no_bins) |->
               CountIn((i - 1) \div no_bins, (i - 1) % no_bins)])

\* C7: for an image with C channels, no_bins >= 1 and an input of which at
\* least one pixel is counted in some bin, get_sift_features returns a vector
\* of length C * no_bins with non-negative entries that sum to 1, channel 0's
\* no_bins entries first, then channel 1's, and so on.
C7_DescriptorIsNormalizedAndLaidOut ==
    (Described /\ TotalCount > 0) =>
        /\ result.kind = "ok"
        /\ Len(result.val) = image.chans * no_bins
        /\ \A i \in DOMAIN result.val : FracLeq(Frac(0, 1), result.val[i])
        /\ FracEq(SumAbsFrac(result.val), One)
        /\ \A ch \in SiftChannels, k \in 0..(no_bins - 1) :
              FracEq(result.val[ch * no_bins + k + 1], Frac(CountIn(ch, k), TotalCount))

AllMagnitudesZero ==
    \A ch \in SiftChannels, p \in SiftPositions : sift.gradients[ch].mag[p] = 0

\* C8: for a constant-value patch (every gradient magnitude zero) and a
\* nonzero threshold, get_sift_features computes an all-zero descriptor,
\* emits the zero-norm diagnostic and still returns a result instead of
\* raising an error.
C8_FlatPatchReturnsWithDiagnostic ==
    (Described /\ AllMagnitudesZero /\ th.num # 0
        /\ \A ch \in SiftChannels : ChannelConstant(callerImage, ch)) =>
        /\ result.kind = "ok"
        /\ sift.printed
        /\ Len(sift.hist) = image.chans * no_bins
        /\ \A i \in DOMAIN sift.hist : sift.hist[i] = 0

\* C9: get_sift_features never mutates the caller's image: with or without a
\* mask the array passed in holds the same pixel values after the call as
\* before it; masking writes only to the private copy.
C9_CallerImageUnchanged ==
    called = "get_sift_features" => image = callerImage

C9_Witness ==
    /\ called = "get_sift_features"
    /\ mask.given
    /\ result.kind = "ok"
    /\ sift.im # callerImage
    /\ image = callerImage

Binned == Described /\ sift.histograms # <<>>

CountedIn(ch, p, k) == sift.histograms[ch][<<p, k>>] = 1

====
